---- MODULE Spec2Model ----
(***************************************************************************)
(* Hazard-pointer reader/writer channel of notJoon/STM (src/src/hazard.rs). *)
(*                                                                         *)
(* One shared AtomicPtr<u8> cell, one Writer handle and one Reader handle. *)
(* The Writer and the Reader are two threads; every atomic load or store   *)
(* of the cell is one step, so Reader::get (a loop of loads) and           *)
(* Reader::destroy (get, compare, deallocate) interleave with the Writer.  *)
(***************************************************************************)
EXTENDS Integers, FiniteSets, Sequences, TLC

\* Pointer values are the integers 0..MaxAddr: 0 is ptr::null(), 1 is the
\* address 0x1 of the tests, the rest are static or application addresses.
MaxAddr == 5

\* `_spins` of Reader::get is an i32: SpinMax stands for i32::MAX, scaled down.
SpinMax == 2

\* How many channels are created one after the other (tests `drop`, `cross_thread`).
MaxChannels == 2

\* How many plain memory writes the Writer's thread makes besides its stores.
MaxWrites == 1

\* Atomic<T>: the values of type T are 0..MaxValue; at most MaxBoxes of them are
\* boxed on the heap.
MaxValue == 2
MaxBoxes == 2

Addr == 0..MaxAddr

\* Where the linker may put the three one-byte statics BLOCKED, FREE, DEAD.
StaticAddrs == 2..4

VARIABLES
    statics,          \* the addresses of the statics BLOCKED, FREE, DEAD
    overflow_checks,  \* build profile: integer overflow panics (debug) or wraps
    cell,             \* the value of the heap AtomicPtr<u8> both handles refer to
    allocated,        \* the cell's Box has not been deallocated
    uaf,              \* the freed cell has been accessed (undefined behaviour)
    created,          \* number of create() calls so far
    freed,            \* number of deallocations so far
    wState,           \* Writer handle: "live", "killed" (forgotten by kill), "dropped"
    wPanicking,       \* thread::panicking() on the Writer's thread
    wFatal,           \* Drop for Writer panicked
    wRet,             \* what is_blocked() last returned: <<>> (not called), <<TRUE>>, <<FALSE>>
    lastStore,        \* history: the Writer's most recent operation on the cell
    deadStores,       \* history: executions of Writer::dead on this channel
    rPc,              \* Reader: "idle", "get", "destroy", "dealloc", "destroyed", "dropped"
    rPanicking,       \* the Reader's thread is unwinding from a panic
    rFatal,           \* Reader failure: "none", "panic", "abort" (panic while unwinding)
    spins,            \* local `_spins` of the running get()
    ptr,              \* local `ptr` of the running get(): the last value loaded
    rRet,             \* the State returned by the last completed get()
    wData,            \* number of plain memory writes the Writer's thread has made
    storeData,        \* history: wData when the Writer last stored to the cell
    cellView,         \* the writes published with the cell's value (release store)
    rView,            \* the writes of the Writer's that are visible to the Reader
    heap,             \* Atomic<T>: the boxed values, as <<address, value>> pairs
    atomic,           \* Atomic<T>: <<>> (no wrapper) or <<p>>, p the value of `inner`
    aInit,            \* Atomic<T>: history, the `init` of the last Atomic::new
    aRet              \* Atomic<T>: <<>> or <<accessor, the slot it returned>>

vars == <<statics, overflow_checks, cell, allocated, uaf, created, freed,
          wState, wPanicking, wFatal, wRet, lastStore, deadStores,
          rPc, rPanicking, rFatal, spins, ptr, rRet,
          wData, storeData, cellView, rView, heap, atomic, aInit, aRet>>

wVars == <<wState, wPanicking, wFatal, wRet, lastStore, deadStores, storeData, cellView>>
rVars == <<rPc, rPanicking, rFatal, spins, ptr, rRet, rView>>
aVars == <<heap, atomic, aInit, aRet>>
envVars == <<statics, overflow_checks, created, wData, aVars>>

\* &BLOCKED, &FREE, &DEAD as *const u8
BLOCKED == statics.BLOCKED
FREE == statics.FREE
DEAD == statics.DEAD

Sentinels == {BLOCKED, FREE, DEAD}

\* enum State
Free == <<"Free">>
Dead == <<"Dead">>
Protect(p) == <<"Protect", p>>
None == <<"None">>

\* Mutant of Decode: the arms for &FREE and &DEAD are swapped.
Decode_Swapped(p) ==
    IF p = FREE THEN <<"Dead">>
    ELSE IF p = DEAD THEN <<"Free">>
    ELSE <<"Protect", p>>

\* The if/else chain of Reader::get on a loaded value that is not &BLOCKED.
Decode(p) ==
    IF p = FREE THEN Free
    ELSE IF p = DEAD THEN Dead
    ELSE Protect(p)

\* `_spins += 1` on an i32: past i32::MAX it wraps to i32::MIN (no overflow checks).
WrapInc(n) == IF n = SpinMax THEN -SpinMax - 1 ELSE n + 1

\* self.ptr.store(v, Release). A store through the reference after the Box was
\* deallocated is a use after free: it may or may not change the old memory.
\* Ordering::Release: the value stored carries every write its thread made before.
Store(v) ==
    /\ IF allocated
       THEN cell' = v /\ UNCHANGED uaf
       ELSE cell' \in {cell, v} /\ uaf' = TRUE
    /\ cellView' = wData
    /\ storeData' = wData

\* Mutant of AcquireLoad: the load is Ordering::Relaxed.
AcquireLoad_Relaxed == UNCHANGED rView

\* self.ptr.load(Ordering::Acquire): what was published with the value loaded
\* becomes visible to the loading thread.
AcquireLoad == rView' = IF cellView > rView THEN cellView ELSE rView

Init ==
    /\ statics \in {s \in [{"BLOCKED", "FREE", "DEAD"} -> StaticAddrs] :
                        /\ s.BLOCKED # s.FREE
                        /\ s.BLOCKED # s.DEAD
                        /\ s.FREE # s.DEAD}
    /\ overflow_checks \in BOOLEAN
    /\ cell = statics.BLOCKED
    /\ allocated = TRUE
    /\ uaf = FALSE
    /\ created = 1
    /\ freed = 0
    /\ wState = "live"
    /\ wPanicking = FALSE
    /\ wFatal = FALSE
    /\ wRet = <<>>
    /\ lastStore = <<"create">>
    /\ deadStores = 0
    /\ rPc = "idle"
    /\ rPanicking = FALSE
    /\ rFatal = "none"
    /\ spins = 0
    /\ ptr = statics.BLOCKED
    /\ rRet = None
    /\ wData = 0
    /\ storeData = 0
    /\ cellView = 0
    /\ rView = 0
    /\ heap = {}
    /\ atomic = <<>>
    /\ aInit = <<>>
    /\ aRet = <<>>

\* create(): a new cell holding &BLOCKED and a fresh Reader/Writer pair, once the
\* previous channel was killed and destroyed (the loops of the tests).
create ==
    /\ wState = "killed"
    /\ rPc = "destroyed"
    /\ ~uaf
    /\ created < MaxChannels
    /\ created' = created + 1
    /\ cell' = BLOCKED
    /\ allocated' = TRUE
    /\ wState' = "live"
    /\ wRet' = <<>>
    /\ lastStore' = <<"create">>
    /\ deadStores' = 0
    /\ rPc' = "idle"
    /\ spins' = 0
    /\ ptr' = BLOCKED
    /\ rRet' = None
    /\ storeData' = 0
    /\ cellView' = 0
    /\ UNCHANGED <<statics, overflow_checks, uaf, freed, wPanicking, wFatal,
                   rPanicking, rFatal, rView, wData, aVars>>

WriterCanCall == wState = "live" /\ ~wPanicking

\* Mutant of is_blocked: the comparison is `!=`.
is_blocked_Negated ==
    /\ wState = "live" /\ ~wPanicking
    /\ IF allocated
       THEN wRet' = <<cell # BLOCKED>> /\ UNCHANGED uaf
       ELSE wRet' \in {<<TRUE>>, <<FALSE>>} /\ uaf' = TRUE
    /\ UNCHANGED <<cell, cellView, storeData, allocated, freed, wState, wPanicking, wFatal, lastStore,
                   deadStores>>
    /\ UNCHANGED <<rVars, envVars>>

\* Writer::is_blocked
is_blocked ==
    /\ WriterCanCall
    /\ IF allocated
       THEN wRet' = <<cell = BLOCKED>> /\ UNCHANGED uaf
       ELSE wRet' \in {<<TRUE>>, <<FALSE>>} /\ uaf' = TRUE
    /\ UNCHANGED <<cell, cellView, storeData, allocated, freed, wState, wPanicking, wFatal, lastStore,
                   deadStores>>
    /\ UNCHANGED <<rVars, envVars>>

\* Writer::block
block ==
    /\ WriterCanCall
    /\ Store(BLOCKED)
    /\ lastStore' = <<"block">>
    /\ UNCHANGED <<allocated, freed, wState, wPanicking, wFatal, wRet, deadStores>>
    /\ UNCHANGED <<rVars, envVars>>

\* Mutant of free: it stores &BLOCKED, as block does.
free_StoresBlocked ==
    /\ wState = "live" /\ ~wPanicking
    /\ Store(BLOCKED)
    /\ lastStore' = <<"free">>
    /\ UNCHANGED <<allocated, freed, wState, wPanicking, wFatal, wRet, deadStores>>
    /\ UNCHANGED <<rVars, envVars>>

\* Writer::free
free ==
    /\ WriterCanCall
    /\ Store(FREE)
    /\ lastStore' = <<"free">>
    /\ UNCHANGED <<allocated, freed, wState, wPanicking, wFatal, wRet, deadStores>>
    /\ UNCHANGED <<rVars, envVars>>

\* Mutant of protect: a pointer equal to one of the three statics' addresses is
\* refused and nothing is stored.
protect_RefusesSentinels(p) ==
    /\ wState = "live" /\ ~wPanicking
    /\ IF p \in Sentinels THEN UNCHANGED <<cell, cellView, storeData, uaf>> ELSE Store(p)
    /\ lastStore' = <<"protect", p>>
    /\ UNCHANGED <<allocated, freed, wState, wPanicking, wFatal, wRet, deadStores>>
    /\ UNCHANGED <<rVars, envVars>>

\* Mutant of protect: a null pointer is stored as &FREE.
protect_NullAsFree(p) ==
    /\ wState = "live" /\ ~wPanicking
    /\ Store(IF p = 0 THEN FREE ELSE p)
    /\ lastStore' = <<"protect", p>>
    /\ UNCHANGED <<allocated, freed, wState, wPanicking, wFatal, wRet, deadStores>>
    /\ UNCHANGED <<rVars, envVars>>

\* Writer::protect(p)
protect(p) ==
    /\ WriterCanCall
    /\ Store(p)
    /\ lastStore' = <<"protect", p>>
    /\ UNCHANGED <<allocated, freed, wState, wPanicking, wFatal, wRet, deadStores>>
    /\ UNCHANGED <<rVars, envVars>>

\* Mutant of dead: it stores &FREE.
dead_StoresFree ==
    /\ Store(FREE)
    /\ lastStore' = <<"dead">>
    /\ deadStores' = deadStores + 1

\* Writer::dead
dead ==
    /\ Store(DEAD)
    /\ lastStore' = <<"dead">>
    /\ deadStores' = deadStores + 1

\* Mutant of kill: it takes &self, so the Writer is neither consumed nor
\* forgotten and stays usable after dead().
kill_KeepsWriter ==
    /\ wState = "live" /\ ~wPanicking
    /\ Store(DEAD)
    /\ lastStore' = <<"dead">>
    /\ deadStores' = deadStores + 1
    /\ UNCHANGED <<allocated, freed, wState, wPanicking, wFatal, wRet>>
    /\ UNCHANGED <<rVars, envVars>>

\* Writer::kill: dead(), then mem::forget(self), so Drop for Writer never runs.
kill ==
    /\ WriterCanCall
    /\ dead
    /\ wState' = "killed"
    /\ UNCHANGED <<allocated, freed, wPanicking, wFatal, wRet>>
    /\ UNCHANGED <<rVars, envVars>>

\* An unrelated panic on the Writer's thread: it unwinds, and the Writer it owns
\* is dropped on the way (WriterDrop).
WriterThreadPanic ==
    /\ WriterCanCall
    /\ wPanicking' = TRUE
    /\ UNCHANGED <<cell, cellView, storeData, allocated, uaf, freed, wState, wFatal, wRet, lastStore,
                   deadStores>>
    /\ UNCHANGED <<rVars, envVars>>

\* Mutant of Drop for Writer: while the thread is panicking the destructor
\* returns at once, without dead().
WriterDrop_Silent ==
    /\ wState = "live"
    /\ wState' = "dropped"
    /\ IF ~wPanicking
       THEN /\ wFatal' = TRUE
            /\ wPanicking' = TRUE
       ELSE UNCHANGED <<wFatal, wPanicking>>
    /\ UNCHANGED <<cell, cellView, storeData, uaf, lastStore, deadStores>>
    /\ UNCHANGED <<allocated, freed, wRet>>
    /\ UNCHANGED <<rVars, envVars>>

\* Mutant of Drop for Writer: the test of thread::panicking() is inverted.
WriterDrop_Inverted ==
    /\ wState = "live"
    /\ wState' = "dropped"
    /\ IF wPanicking
       THEN /\ wFatal' = TRUE
            /\ wPanicking' = TRUE
            /\ UNCHANGED <<cell, cellView, storeData, uaf, lastStore, deadStores>>
       ELSE /\ Store(DEAD)
            /\ lastStore' = <<"dead">>
            /\ deadStores' = deadStores + 1
            /\ UNCHANGED <<wFatal, wPanicking>>
    /\ UNCHANGED <<allocated, freed, wRet>>
    /\ UNCHANGED <<rVars, envVars>>

\* Drop for Writer: the Writer leaves its scope without kill().
WriterDrop ==
    /\ wState = "live"
    /\ wState' = "dropped"
    /\ IF ~wPanicking
       THEN /\ wFatal' = TRUE
            /\ wPanicking' = TRUE
            /\ UNCHANGED <<cell, cellView, storeData, uaf, lastStore, deadStores>>
       ELSE /\ dead
            /\ UNCHANGED <<wFatal, wPanicking>>
    /\ UNCHANGED <<allocated, freed, wRet>>
    /\ UNCHANGED <<rVars, envVars>>

ReaderCanCall == rPc = "idle" /\ ~rPanicking

\* Reader::get is called: `let mut _spins = 0`.
GetCall ==
    /\ ReaderCanCall
    /\ rPc' = "get"
    /\ spins' = 0
    /\ rRet' = None
    /\ UNCHANGED <<ptr, rPanicking, rFatal, rView>>
    /\ UNCHANGED <<cell, allocated, uaf, freed, wVars, envVars>>

\* One iteration of the loop of Reader::get on a load of &BLOCKED:
\* `_spins += 1; continue`, which panics on overflow in a build with overflow checks.
Spin ==
    IF spins = SpinMax /\ overflow_checks
    THEN /\ rPanicking' = TRUE
         /\ rPc' = "idle"
         /\ UNCHANGED spins
    ELSE /\ spins' = WrapInc(spins)
         /\ UNCHANGED <<rPc, rPanicking>>

\* Mutant of GetLoad: the State returned is decoded from the value of the load
\* before the last one.
GetLoad_ReturnsPrevious ==
    /\ rPc = "get"
    /\ ptr' = cell
    /\ AcquireLoad
    /\ IF cell = BLOCKED
       THEN Spin /\ UNCHANGED rRet
       ELSE /\ rRet' = Decode(ptr)
            /\ rPc' = "idle"
            /\ UNCHANGED <<spins, rPanicking>>
    /\ UNCHANGED rFatal
    /\ UNCHANGED <<cell, allocated, uaf, freed, wVars, envVars>>

\* Mutant of GetLoad: no test for &BLOCKED, every loaded value is returned.
GetLoad_NoSpin ==
    /\ rPc = "get"
    /\ ptr' = cell
    /\ AcquireLoad
    /\ rRet' = Decode(cell)
    /\ rPc' = "idle"
    /\ UNCHANGED <<spins, rPanicking, rFatal>>
    /\ UNCHANGED <<cell, allocated, uaf, freed, wVars, envVars>>

\* One iteration of the loop of a plain Reader::get call.
GetLoad ==
    /\ rPc = "get"
    /\ ptr' = cell
    /\ AcquireLoad
    /\ IF cell = BLOCKED
       THEN Spin /\ UNCHANGED rRet
       ELSE /\ rRet' = Decode(cell)
            /\ rPc' = "idle"
            /\ UNCHANGED <<spins, rPanicking>>
    /\ UNCHANGED rFatal
    /\ UNCHANGED <<cell, allocated, uaf, freed, wVars, envVars>>

\* Reader::destroy is called: it starts with self.get().
DestroyCall ==
    /\ ReaderCanCall
    /\ rPc' = "destroy"
    /\ spins' = 0
    /\ rRet' = None
    /\ UNCHANGED <<ptr, rPanicking, rFatal, rView>>
    /\ UNCHANGED <<cell, allocated, uaf, freed, wVars, envVars>>

\* Mutant of DestroyCheck: the comparison with State::Dead is inverted.
DestroyCheck_Inverted(s) ==
    IF s = Dead
    THEN rPanicking' = TRUE /\ rPc' = "idle"
    ELSE UNCHANGED rPanicking /\ rPc' = "dealloc"

\* `if self.get() != State::Dead { panic!(..) }` on the State get() returned.
DestroyCheck(s) ==
    IF s # Dead
    THEN rPanicking' = TRUE /\ rPc' = "idle"
    ELSE UNCHANGED rPanicking /\ rPc' = "dealloc"

\* Mutant of DestroyLoad: destroy tests one load of the cell instead of get(),
\* so that &BLOCKED is one more value that is not Dead.
DestroyLoad_NoSpin ==
    /\ rPc = "destroy"
    /\ ptr' = cell
    /\ AcquireLoad
    /\ rRet' = IF cell = BLOCKED THEN None ELSE Decode(cell)
    /\ DestroyCheck(IF cell = BLOCKED THEN None ELSE Decode(cell))
    /\ UNCHANGED <<spins, rFatal>>
    /\ UNCHANGED <<cell, allocated, uaf, freed, wVars, envVars>>

\* One iteration of the loop of the get() inside Reader::destroy, and the
\* comparison with State::Dead once it returns.
DestroyLoad ==
    /\ rPc = "destroy"
    /\ ptr' = cell
    /\ AcquireLoad
    /\ IF cell = BLOCKED
       THEN Spin /\ UNCHANGED rRet
       ELSE /\ rRet' = Decode(cell)
            /\ DestroyCheck(Decode(cell))
            /\ UNCHANGED spins
    /\ UNCHANGED rFatal
    /\ UNCHANGED <<cell, allocated, uaf, freed, wVars, envVars>>

\* Mutant of the end of destroy: the Reader is forgotten but the Box is not
\* rebuilt and dropped, so the cell leaks.
DestroyDealloc_Leak ==
    /\ rPc = "dealloc"
    /\ rPc' = "destroyed"
    /\ UNCHANGED <<allocated, freed>>
    /\ UNCHANGED <<ptr, rPanicking, rFatal, spins, rRet, rView>>
    /\ UNCHANGED <<cell, uaf, wVars, envVars>>

\* drop(Box::from_raw(..)); mem::forget(self)
DestroyDealloc ==
    /\ rPc = "dealloc"
    /\ allocated' = FALSE
    /\ freed' = freed + 1
    /\ rPc' = "destroyed"
    /\ UNCHANGED <<ptr, rPanicking, rFatal, spins, rRet, rView>>
    /\ UNCHANGED <<cell, uaf, wVars, envVars>>

\* An unrelated panic on the Reader's thread, between two calls.
ReaderThreadPanic ==
    /\ ReaderCanCall
    /\ rPanicking' = TRUE
    /\ UNCHANGED <<rPc, rFatal, spins, ptr, rRet, rView>>
    /\ UNCHANGED <<cell, allocated, uaf, freed, wVars, envVars>>

\* Mutant of Drop for Reader: like Drop for Writer, it does not panic while the
\* thread is already panicking.
ReaderDrop_UnwindAware ==
    /\ rPc = "idle"
    /\ rPc' = "dropped"
    /\ rFatal' = IF rPanicking THEN rFatal ELSE "panic"
    /\ rPanicking' = TRUE
    /\ UNCHANGED <<spins, ptr, rRet, rView>>
    /\ UNCHANGED <<cell, allocated, uaf, freed, wVars, envVars>>

\* Drop for Reader: the Reader leaves its scope (or its thread unwinds) without a
\* destroy() that ran to its end. It panics; a panic while unwinding aborts.
ReaderDrop ==
    /\ rPc = "idle"
    /\ rPc' = "dropped"
    /\ rFatal' = IF rPanicking THEN "abort" ELSE "panic"
    /\ rPanicking' = TRUE
    /\ UNCHANGED <<spins, ptr, rRet, rView>>
    /\ UNCHANGED <<cell, allocated, uaf, freed, wVars, envVars>>

Next ==
    \/ create
    \/ is_blocked
    \/ block
    \/ free
    \/ \E p \in Addr : protect(p)
    \/ kill
    \/ WriterThreadPanic
    \/ WriterDrop
    \/ GetCall
    \/ GetLoad
    \/ DestroyCall
    \/ DestroyLoad
    \/ DestroyDealloc
    \/ ReaderThreadPanic
    \/ ReaderDrop

Spec == Init /\ [][Next]_vars

\* The channel used as its callers are meant to use it: protect is never given
\* the address of BLOCKED, FREE or DEAD.
NoSentinelNext ==
    \/ create
    \/ is_blocked
    \/ block
    \/ free
    \/ \E p \in Addr \ Sentinels : protect(p)
    \/ kill
    \/ WriterThreadPanic
    \/ WriterDrop
    \/ GetCall
    \/ GetLoad
    \/ DestroyCall
    \/ DestroyLoad
    \/ DestroyDealloc
    \/ ReaderThreadPanic
    \/ ReaderDrop

NoSentinelSpec == Init /\ [][NoSentinelNext]_vars

----------------------------------------------------------------------------
\* The Writer's thread also writes plain memory between its calls (`let x = 2`
\* before `w.protect(&x)` in the tests): what the orderings of the cell's
\* stores and loads make visible to the Reader's thread.

\* A plain write by the Writer's thread, to memory other than the cell.
WriterWrite ==
    /\ ~wPanicking
    /\ wData < MaxWrites
    /\ wData' = wData + 1
    /\ UNCHANGED <<cell, allocated, uaf, freed, wVars, rVars>>
    /\ UNCHANGED <<statics, overflow_checks, created, aVars>>

OrderNext ==
    \/ Next
    \/ WriterWrite

OrderSpec == Init /\ [][OrderNext]_vars

----------------------------------------------------------------------------
\* Atomic<T> (src/src/atomic.rs): one wrapper at a time, made, read through its
\* two accessors and discarded by its caller.

\* The values of type T.
Values == 0..MaxValue

\* Option<Box<T>>::Some(Box::new(v)); None is Option::None.
Some(v) == <<"Some", v>>

\* The addresses of the boxed values.
HeapAddrs == {b[1] : b \in heap}

\* What Atomic<T>'s operations leave alone: the hazard channel.
chanVars == <<cell, allocated, uaf, freed, wVars, rVars, statics, overflow_checks,
              created, wData>>

\* Atomic::new(init): Box::into_raw gives the address of the boxed value, which
\* is never null and stays allocated; None gives ptr::null_mut().
new(init) ==
    /\ atomic = <<>>
    /\ IF init = None
       THEN /\ atomic' = <<0>>
            /\ UNCHANGED heap
       ELSE /\ Cardinality(heap) < MaxBoxes
            /\ \E a \in (Addr \ {0}) \ (Sentinels \cup HeapAddrs) :
                  /\ heap' = heap \cup {<<a, init[2]>>}
                  /\ atomic' = <<a>>
    /\ aInit' = init
    /\ aRet' = <<>>
    /\ UNCHANGED chanVars

\* Atomic::get_inner: &self.inner
get_inner ==
    /\ atomic # <<>>
    /\ aRet' = <<"get_inner", atomic[1]>>
    /\ UNCHANGED <<heap, atomic, aInit, chanVars>>

\* Atomic::get_inner_mut: &mut self.inner
get_inner_mut ==
    /\ atomic # <<>>
    /\ aRet' = <<"get_inner_mut", atomic[1]>>
    /\ UNCHANGED <<heap, atomic, aInit, chanVars>>

\* Mutant of AtomicDiscard: Atomic<T> has a Drop that frees the boxed value.
AtomicDiscard_FreesValue ==
    /\ atomic # <<>>
    /\ atomic' = <<>>
    /\ aRet' = <<>>
    /\ heap' = {b \in heap : b[1] # atomic[1]}
    /\ UNCHANGED <<aInit, chanVars>>

\* The wrapper goes out of scope. Atomic<T> has no Drop and AtomicPtr<T> frees
\* nothing, so the boxed value stays on the heap; the references end with it.
AtomicDiscard ==
    /\ atomic # <<>>
    /\ atomic' = <<>>
    /\ aRet' = <<>>
    /\ UNCHANGED <<heap, aInit, chanVars>>

AtomicNext ==
    \/ \E init \in {None} \cup {Some(v) : v \in Values} : new(init)
    \/ get_inner
    \/ get_inner_mut
    \/ AtomicDiscard

AtomicSpec == Init /\ [][AtomicNext]_vars

\* The Reader's and the Writer's threads keep running while they have a step to
\* take (OS threads): the loop of get() goes on loading, destroy() goes on to
\* its deallocation, and a thread that is unwinding runs the destructor of the
\* handle it owns. Nothing obliges the Writer to call anything.
FairSpec ==
    /\ Spec
    /\ WF_vars(GetLoad)
    /\ WF_vars(DestroyLoad)
    /\ WF_vars(DestroyDealloc)
    /\ WF_vars(rPanicking /\ ReaderDrop)
    /\ WF_vars(wPanicking /\ WriterDrop)

----------------------------------------------------------------------------
\* Steps of the two threads, told from the variables they change.

\* The cell of the current channel is deallocated in this step.
DeallocStep == allocated /\ ~allocated'

\* A step inside the current channel (not the create() of the next one).
SameChannel == created' = created

\* An iteration of the loop of get(), called directly or from destroy().
LoopStep ==
    /\ rPc \in {"get", "destroy"}
    /\ (spins' # spins \/ rPc' # rPc \/ rPanicking' # rPanicking)

\* The get() in progress returns in this step.
ReturnStep == rRet = None /\ rRet' # None

\* The address a Writer operation stores in the cell.
StoredBy(op) ==
    CASE op = <<"create">> -> BLOCKED
      [] op = <<"block">> -> BLOCKED
      [] op = <<"free">> -> FREE
      [] op = <<"dead">> -> DEAD
      [] OTHER -> op[2]

----------------------------------------------------------------------------
\* C1 (as stated): the cell is never deallocated while its value is Blocked,
\* Free or Protect(p): whenever the cell is freed it holds Dead.
C1_FreedOnlyWhileDead == [][DeallocStep => cell = DEAD]_vars

\* C1 (amended): the cell is deallocated only by destroy, and only if the cell
\* held Dead at the load by which destroy's get() observed it; the value loaded
\* and the State returned are Dead when the cell is freed.
C1_FreedOnlyAfterDeadObserved ==
    [][/\ (rPc = "destroy" /\ rPc' = "dealloc") => (cell = DEAD /\ ptr' = cell)
       /\ DeallocStep => (rPc = "dealloc" /\ ptr = DEAD /\ rRet = Dead)]_vars

\* C1 witness: destroy has observed Dead and freed the cell.
C1_Witness == rPc = "destroyed" /\ ~allocated /\ ptr = DEAD /\ wState = "killed"

\* C2 (as stated): once the cell has left Blocked it never holds Blocked again.
C2_BlockedOnlyInitially == [][(SameChannel /\ cell # BLOCKED) => cell' # BLOCKED]_vars

\* C2 (amended): a fresh cell holds Blocked; the cell comes back to Blocked only
\* by block() (or protect given the address of BLOCKED), it comes to Dead only by
\* dead() (or protect given the address of DEAD), and its value changes only when
\* the Writer stores.
C2_Grammar ==
    /\ [](lastStore = <<"create">> => cell = BLOCKED)
    /\ [][(SameChannel /\ allocated) =>
            /\ (cell' # cell) => (lastStore' # <<"create">> /\ wState = "live")
            /\ (cell # BLOCKED /\ cell' = BLOCKED) =>
                   lastStore' \in {<<"block">>, <<"protect", BLOCKED>>}
            /\ (cell # DEAD /\ cell' = DEAD) =>
                   lastStore' \in {<<"dead">>, <<"protect", DEAD>>}]_vars

\* C2 witness: the cell had left Blocked (is_blocked() returned false), is Blocked
\* again after block(), and a get() is spinning on it.
C2_Witness ==
    /\ lastStore = <<"block">> /\ cell = BLOCKED /\ wRet = <<FALSE>>
    /\ rPc = "get" /\ spins > 0

\* C3 (as stated): while the cell holds Dead no Writer operation is reachable.
C3_DeadMeansNoWriter == (allocated /\ cell = DEAD) => ~WriterCanCall

\* C3 (amended): Writer::dead runs at most once per channel (kill or the
\* destructor while unwinding, never both); once it has run no Writer operation
\* is reachable and the cell holds Dead until the Reader frees it.
C3_DeadStoredOnce ==
    /\ [](deadStores <= 1)
    /\ [](deadStores = 1 => (~WriterCanCall /\ wState # "live" /\ (~uaf => cell = DEAD)))
    /\ [][(SameChannel /\ deadStores = 1) =>
             (deadStores' = 1 /\ lastStore' = lastStore /\ (allocated => cell' = cell))]_vars

\* C3 witness: kill() has stored Dead and the Reader has seen it.
C3_Witness == deadStores = 1 /\ wState = "killed" /\ allocated /\ rRet = Dead

\* C4 (as stated): on every value other than Dead that destroy's get() loads
\* (Blocked, Free, Protect(p)) destroy panics and leaves the cell allocated; on
\* Dead it goes on to free the cell.
C4_DestroyPanicsUnlessDead ==
    [][(rPc = "destroy" /\ LoopStep) =>
          IF cell = DEAD
          THEN rPc' = "dealloc" /\ ~rPanicking'
          ELSE rPanicking' /\ rPc' = "idle" /\ allocated']_vars

\* C4 (amended): destroy's outcome is decided by the first value other than
\* Blocked that its get() loads: on Dead it frees the cell and ends without
\* failure; on Free or Protect(p) it panics and leaves the cell allocated; a load
\* of Blocked is never compared with Dead and never frees the cell: destroy stays
\* in the loop of get(), which fails only by the overflow of its spin counter.
C4_DestroyOutcome ==
    [][/\ (rPc = "destroy" /\ LoopStep) =>
            /\ allocated /\ allocated'
            /\ IF cell = DEAD THEN rPc' = "dealloc" /\ ~rPanicking' /\ rRet' = Dead
               ELSE IF cell = BLOCKED
                    THEN /\ rRet' = None
                         /\ IF spins = SpinMax /\ overflow_checks
                            THEN rPanicking' /\ rPc' = "idle"
                            ELSE ~rPanicking' /\ rPc' = "destroy"
               ELSE rPanicking' /\ rPc' = "idle" /\ rRet' = Decode(cell)
       /\ (rPc = "dealloc" /\ rPc' # rPc) =>
            (DeallocStep /\ rPc' = "destroyed" /\ ~rPanicking' /\ rFatal' = "none")
       /\ DeallocStep => rPc = "dealloc"]_vars

\* C4 witness: a destroy() that loaded Blocked first went on and panicked on Free.
C4_Witness ==
    rPc = "idle" /\ rPanicking /\ rRet = Free /\ spins > 0 /\ allocated /\ ptr = FREE

\* C5: a fresh channel is Blocked and is_blocked() is true on it; get() does not
\* return on a load of Blocked, it returns only on a load of a value the Writer
\* stored that is not Blocked, and what it returns does not denote Blocked; the
\* same after block().
C5_BlockedHoldsGet ==
    /\ [](lastStore \in {<<"create">>, <<"block">>} /\ ~uaf => cell = BLOCKED)
    /\ [](lastStore = <<"create">> /\ wRet # <<>> /\ ~uaf => wRet = <<TRUE>>)
    /\ [][/\ (SameChannel /\ wRet' # wRet /\ allocated
                /\ lastStore \in {<<"create">>, <<"block">>}) => wRet' = <<TRUE>>
          /\ (LoopStep /\ cell = BLOCKED) =>
                (rRet' = None /\ (rPc' = rPc \/ rPanicking'))
          /\ ReturnStep =>
                /\ cell # BLOCKED
                /\ ptr' = cell
                /\ rRet' \in {Free, Dead} \cup {Protect(p) : p \in Addr \ {BLOCKED}}
                /\ lastStore \notin {<<"create">>, <<"block">>, <<"protect", BLOCKED>>}]_vars

\* C5 witness: a get() that spun on Blocked has returned after block() was undone.
C5_Witness == rPc = "idle" /\ ~rPanicking /\ rRet = Free /\ spins > 0 /\ wRet = <<TRUE>>

\* C6: while protect(p), p not a sentinel address, is the Writer's latest
\* operation, a get() that returns returns Protect(p) with that p, whatever the
\* cell held before.
C6_ProtectThenGet ==
    /\ [](\A p \in Addr \ Sentinels :
            (lastStore = <<"protect", p>> /\ ~uaf) => cell = p)
    /\ [][\A p \in Addr \ Sentinels :
            (ReturnStep /\ lastStore = <<"protect", p>>) => rRet' = Protect(p)]_vars

\* C6 witness: get() returned Protect(null) after protect(null).
C6_Witness ==
    /\ lastStore = <<"protect", 0>> /\ rRet = Protect(0) /\ rPc = "idle"
    /\ 0 \notin Sentinels

\* C7: while free() is the Writer's latest operation the cell holds the Free
\* sentinel and a get() that returns returns Free; a further free() leaves the
\* cell as it is.
C7_FreeThenGet ==
    /\ [](lastStore = <<"free">> /\ ~uaf => cell = FREE)
    /\ [][/\ (ReturnStep /\ lastStore = <<"free">>) => rRet' = Free
          /\ (SameChannel /\ allocated /\ lastStore = <<"free">>
                /\ lastStore' = <<"free">>) => cell' = cell]_vars

\* C7 witness: get() returned Free after free().
C7_Witness == lastStore = <<"free">> /\ rRet = Free /\ rPc = "idle" /\ spins > 0

\* C8: kill() stores Dead whatever the cell held, never makes the Writer's
\* destructor fail, and every get() that returns after it returns Dead.
C8_KillThenDead ==
    /\ [](wState = "killed" => (~wFatal /\ ~wPanicking /\ (~uaf => cell = DEAD)))
    /\ [][/\ (wState = "live" /\ wState' = "killed" /\ allocated) =>
                (cell' = DEAD /\ wFatal' = wFatal)
          /\ (ReturnStep /\ wState = "killed") => rRet' = Dead]_vars

\* C8 witness: a get() that was spinning on Blocked returned Dead after kill().
C8_Witness ==
    wState = "killed" /\ rRet = Dead /\ rPc = "idle" /\ spins > 0 /\ wRet = <<>>

\* C9: with the two threads scheduled fairly, a get() in progress eventually
\* returns if the Writer eventually calls kill(), whether it started before or
\* after the kill; a get() that returns after kill() returns Dead, and a
\* destroy() running after kill() frees the cell.
C9_GetReturnsIfKilled ==
    /\ []((rPc = "get" /\ <>(wState = "killed")) => <>(rPc = "idle" /\ rRet # None))
    /\ ((rPc = "destroy" /\ wState = "killed") ~> (rPc = "destroyed"))
    /\ [][(ReturnStep /\ wState = "killed") => rRet' = Dead]_vars

\* C9 in a build without overflow checks (release profile).
C9_WithoutOverflowChecks ==
    []((~overflow_checks /\ rPc = "get" /\ <>(wState = "killed"))
          => <>(rPc = "idle" /\ rRet # None))

\* C10: a Writer dropped without kill() while its thread is not panicking makes
\* the destructor panic, and the destructor stores nothing: the cell keeps its
\* value.
C10_DropNotPanicking ==
    [][(wState = "live" /\ wState' = "dropped" /\ ~wPanicking) =>
          /\ wFatal' /\ wPanicking'
          /\ cell' = cell
          /\ deadStores' = deadStores
          /\ lastStore' = lastStore]_vars

\* C10 witness: the destructor panicked and the cell still holds Free.
C10_Witness == wState = "dropped" /\ wFatal /\ deadStores = 0 /\ cell = FREE

\* C11: a Writer dropped without kill() while its thread is panicking raises no
\* second failure and stores Dead whatever the cell held; a get() that returns
\* afterwards returns Dead and a destroy() goes on to free the cell.
C11_DropWhilePanicking ==
    /\ [](wState = "dropped" /\ ~wFatal => (deadStores = 1 /\ (~uaf => cell = DEAD)))
    /\ [][/\ (wState = "live" /\ wState' = "dropped" /\ wPanicking) =>
                /\ wFatal' = wFatal /\ ~wFatal'
                /\ allocated => cell' = DEAD
                /\ deadStores' = deadStores + 1
          /\ (ReturnStep /\ wState = "dropped" /\ ~wFatal) => rRet' = Dead
          /\ (rPc = "destroy" /\ LoopStep /\ wState = "dropped" /\ ~wFatal) =>
                (rPc' = "dealloc" /\ ~rPanicking')]_vars

\* C11 witness: the Writer was dropped quietly by its unwinding thread and the
\* Reader has then destroyed the channel.
C11_Witness ==
    wState = "dropped" /\ wPanicking /\ ~wFatal /\ rPc = "destroyed" /\ rRet = Dead

\* C12: the Reader's destructor always panics, whatever the cell holds and
\* whether or not the thread is already unwinding; the Reader ends without a
\* failure only through a destroy() that freed the cell, and a destroy() that
\* panicked leaves the Reader to its destructor.
C12_ReaderDropFatal ==
    /\ [](rPc = "dropped" => rFatal \in {"panic", "abort"})
    /\ [](rFatal = "none" => rPc # "dropped")
    /\ [][/\ (rPc # "dropped" /\ rPc' = "dropped") =>
                (rFatal' = IF rPanicking THEN "abort" ELSE "panic")
          /\ (SameChannel /\ rPc # "destroyed" /\ rPc' = "destroyed") =>
                (DeallocStep /\ rRet = Dead /\ rFatal' = "none")
          /\ (rPc = "idle" /\ rPanicking /\ rPc' # rPc) => rPc' = "dropped"]_vars

\* C12 witness: the Reader was dropped while the cell held Dead, out of a
\* thread that was not unwinding, and its destructor panicked.
C12_Witness ==
    rPc = "dropped" /\ rFatal = "panic" /\ cell = DEAD /\ wState = "killed" /\ allocated

\* C13: over channels driven one after the other through create(), kill(),
\* destroy(), every create() allocates one cell and every cell is freed exactly
\* once: the cells freed never outnumber the cells created, a cell is freed only
\* while it is allocated, and when a channel is killed and destroyed no cell is
\* live.
C13_NoLeakNoDoubleFree ==
    /\ [](freed <= created /\ created - freed = (IF allocated THEN 1 ELSE 0))
    /\ [](rPc = "destroyed" => (freed = created /\ ~allocated))
    /\ [][/\ freed' # freed => (freed' = freed + 1 /\ DeallocStep)
          /\ created' # created => (created' = created + 1 /\ ~allocated /\ allocated')]_vars

\* C13 witness: two channels were created, killed and destroyed in sequence.
C13_Witness ==
    created = 2 /\ freed = 2 /\ ~allocated /\ wState = "killed" /\ rPc = "destroyed"

\* C14: is_blocked() returns true exactly when the cell holds Blocked at the call
\* and leaves the cell alone: true after create() and after block(), false after
\* free() and after protect(p), p not a sentinel.
C14_IsBlocked ==
    [][(SameChannel /\ wRet' # wRet /\ allocated) =>
          /\ wRet' = <<cell = BLOCKED>>
          /\ cell' = cell /\ lastStore' = lastStore
          /\ lastStore \in {<<"create">>, <<"block">>} => wRet' = <<TRUE>>
          /\ lastStore \in {<<"free">>} \cup {<<"protect", p>> : p \in Addr \ Sentinels}
                => wRet' = <<FALSE>>]_vars

\* C14 witness: is_blocked() has returned false on a channel that block() has
\* since put back to Blocked.
C14_Witness == wRet = <<FALSE>> /\ lastStore = <<"block">> /\ cell = BLOCKED /\ rPc = "idle"

\* C15: every store of the Writer is a release store and every load of the
\* Reader an acquire load, so that when get() returns a state, every memory
\* write the Writer's thread made before the store of that state is visible to
\* the Reader (and nothing the Writer has not written is).
C15_ReleaseAcquire ==
    [][/\ (SameChannel /\ ReturnStep) => rView' >= storeData
       /\ rView' <= wData']_vars

\* C15 witness: the Writer wrote, then called protect(1), and get() returned
\* Protect(1) with the write visible.
C15_Witness ==
    /\ lastStore = <<"protect", 1>> /\ rRet = Protect(1) /\ rPc = "idle"
    /\ wData = 1 /\ storeData = 1 /\ rView = 1

\* C16: Atomic::new(None) gives a slot holding null and Atomic::new(Some(v)) a
\* slot holding the non-null address of the boxed v; neither accessor changes
\* the slot, which each returns as it is, and nothing the wrapper does, its
\* discarding included, frees a boxed value or rewrites the slot.
C16_AtomicWrapper ==
    [][/\ (atomic = <<>> /\ atomic' # <<>>) =>
             IF aInit' = None
             THEN atomic' = <<0>> /\ heap' = heap
             ELSE /\ atomic'[1] # 0
                  /\ atomic'[1] \notin HeapAddrs
                  /\ heap' = heap \cup {<<atomic'[1], aInit'[2]>>}
       /\ (atomic # <<>> /\ atomic' # <<>>) => atomic' = atomic
       /\ (aRet' # aRet /\ aRet' # <<>>) =>
             (aRet'[2] = atomic[1] /\ atomic' = atomic /\ heap' = heap)
       /\ heap \subseteq heap']_vars

\* C16 witness: a wrapper made from Some(1) was read through get_inner_mut and
\* another, made later from None, was discarded; the boxed 1 is still there.
C16_Witness ==
    /\ atomic = <<>> /\ aInit = None
    /\ \E b \in heap : b[2] = 1

\* C17: when protect is never given a sentinel address, the freed cell is never
\* accessed: the cell is freed only after Writer::dead ran, which was the
\* Writer's last access, no Writer operation is reachable once the cell is
\* freed, and the Reader does not load from a freed cell.
C17_NoUseAfterFree ==
    /\ [](~uaf)
    /\ [](~allocated => (~WriterCanCall /\ wState # "live" /\ deadStores = 1
                           /\ lastStore = <<"dead">> /\ rPc = "destroyed"))
    /\ [](rPc \in {"get", "destroy", "dealloc"} => allocated)
    /\ [][DeallocStep => (deadStores = 1 /\ lastStore = <<"dead">> /\ wState # "live")]_vars

\* C17 witness: the cell was freed after the unwinding destructor's Dead store.
C17_Witness == ~allocated /\ ~uaf /\ wState = "dropped" /\ rPc = "destroyed"

\* C18: a load of Blocked inside destroy() neither fails nor frees the cell, it
\* leaves destroy() in the loop of get(); destroy() leaves that loop only on a
\* load of a value other than Blocked, which decides between freeing the cell
\* and the fatal failure.
C18_DestroySpinsWhileBlocked ==
    [][/\ (rPc = "destroy" /\ LoopStep /\ cell = BLOCKED) =>
            (rPc' = "destroy" /\ ~rPanicking' /\ rRet' = None /\ allocated')
       /\ (rPc = "destroy" /\ rPc' # "destroy") =>
            /\ cell # BLOCKED
            /\ IF cell = DEAD THEN rPc' = "dealloc" /\ ~rPanicking'
               ELSE rPc' = "idle" /\ rPanicking' /\ allocated']_vars

\* C18 in a build without overflow checks (release profile).
C18_WithoutOverflowChecks ==
    [][(~overflow_checks /\ rPc = "destroy" /\ LoopStep /\ cell = BLOCKED) =>
            (rPc' = "destroy" /\ ~rPanicking' /\ rRet' = None /\ allocated')]_vars

\* C19: the State is decoded from the stored address alone. While protect(p) is
\* the Writer's latest operation: with p the address of FREE a get() returns
\* Free; with p the address of DEAD a get() returns Dead and destroy() goes on
\* to free the cell although the Writer is alive; with p the address of BLOCKED
\* is_blocked() is true and get() does not return; with any other p a get()
\* returns Protect(p).
C19_SentinelAliasing ==
    [][\A p \in Addr :
        (SameChannel /\ allocated /\ lastStore = <<"protect", p>>) =>
          /\ ReturnStep =>
                rRet' = (IF p = FREE THEN Free ELSE IF p = DEAD THEN Dead
                         ELSE Protect(p))
          /\ LoopStep => (p = BLOCKED <=> ~ReturnStep)
          /\ (rPc = "destroy" /\ LoopStep /\ p = DEAD) => rPc' = "dealloc"
          /\ (rPc = "dealloc" /\ rPc' # rPc) => (DeallocStep /\ wState' = wState)
          /\ (wRet' # wRet) => (wRet' = <<p = BLOCKED>>)]_vars

\* C19 witness: destroy() freed the cell after protect(&DEAD), the Writer is
\* still alive.
C19_Witness ==
    ~allocated /\ rPc = "destroyed" /\ WriterCanCall /\ lastStore = <<"protect", DEAD>>

\* C20: a get() that runs while the Writer stores returns the decoding of the
\* value of its last load, which is the value the cell held at that load and a
\* value the Writer stored; it returns at its first load of a value other than
\* Blocked.
C20_GetReturnsLoadedValue ==
    [][/\ ReturnStep =>
            /\ rPc \in {"get", "destroy"} /\ allocated
            /\ ptr' = cell /\ cell = StoredBy(lastStore) /\ cell # BLOCKED
            /\ rRet' = (IF cell = FREE THEN Free ELSE IF cell = DEAD THEN Dead
                        ELSE Protect(cell))
       /\ (LoopStep /\ cell # BLOCKED) => (ReturnStep /\ spins' = spins)
       /\ (LoopStep /\ cell = BLOCKED) => ~ReturnStep]_vars

\* C20 witness: get() returned Protect(0x1), loaded after some spinning, and the
\* Writer has stored Free since.
C20_Witness ==
    /\ rPc = "idle" /\ rRet = Protect(1) /\ ptr = 1 /\ spins > 0
    /\ lastStore = <<"free">> /\ cell = FREE
====
